---------------------------- MODULE Spec2Model ----------------------------
(***************************************************************************)
(* The turn-orchestration state machine of backend/agents/orchestrator.py *)
(* with the five responders it dispatches to.  One turn is one call of    *)
(* AgentOrchestrator.process_message; the graph nodes are the actions.    *)
(*                                                                         *)
(* Conventions                                                             *)
(*   - a confidence is an integer number of hundredths (0.95 is 95);      *)
(*   - a text is a sequence of fragments, the empty string is << >>;      *)
(*   - a user utterance is a set of phrases joined by "; " plus its       *)
(*     letter case; str.lower() maps the case to lower;                   *)
(*   - None is the string "None".                                         *)
(***************************************************************************)
EXTENDS Integers, Sequences, FiniteSets, TLC

\* ------------------------------------------------------------- bounds
\* phrases per user utterance
MaxQueryTokens == 2
\* chunks of one version of a source document
MaxChunks == 2
\* versions of the source document (its last-modified stamps)
MaxVersions == 2
\* keys in one bucket listing
MaxKeys == 3

\* The graph runtime stops a run that has not reached END after this many
\* node executions (ainvoke is called without a config, so the runtime's
\* default applies) and raises into process_message.
RecursionLimit == 25

None == "None"

\* ------------------------------------------------------------- utterances
Vocabulary ==
  { "annual fee", "unfair", "account balance", "credit limit",
    "unauthorized transaction", "spending report", "refund", "urgent",
    "speak to a manager", "now", "close account", "budget", "hello" }

\* The keywords of the source that occur in a phrase as a substring
\* (Python's `kw in text`); phrases are joined by "; ", which no keyword
\* contains, so no keyword spans two phrases.
Subs(t) ==
  CASE t = "annual fee" -> {"annual fee", "fee"}
    [] t = "unfair" -> {"unfair"}
    [] t = "account balance" -> {"account", "balance"}
    [] t = "credit limit" -> {"credit", "credit limit", "limit"}
    [] t = "unauthorized transaction" -> {"transaction", "unauthorized"}
    [] t = "spending report" -> {"report", "spending"}
    [] t = "refund" -> {"refund"}
    [] t = "urgent" -> {"urgent"}
    [] t = "speak to a manager" -> {"manager", "speak to"}
    [] t = "now" -> {"now"}
    [] t = "close account" -> {"account", "close account"}
    [] t = "budget" -> {"budget"}
    [] t = "hello" -> {}

\* An utterance: the phrases and whether it was typed in upper case.
Queries ==
  { [toks |-> ts, upper |-> u] :
      ts \in { s \in SUBSET Vocabulary : Cardinality(s) <= MaxQueryTokens },
      u \in BOOLEAN }

\* str.lower()
Lower(q) == [q EXCEPT !.upper = FALSE]

\* `w in q`: the keywords are lower case, so nothing matches upper-case text
Has(q, w) == ~q.upper /\ \E t \in q.toks : w \in Subs(t)

\* any(word in q for word in words)
AnyIn(words, q) == \E w \in words : Has(q, w)

\* sum(1 for keyword in words if keyword in q)
Count(words, q) == Cardinality({ w \in words : Has(q, w) })

\* ------------------------------------------------------------- responders
\* registration order of self.agents (dicts keep insertion order)
AgentOrder == << "policy", "account", "transaction", "analytics", "escalation" >>
Agents == { AgentOrder[i] : i \in 1..Len(AgentOrder) }

\* BaseAgent.name of each responder
AgentName(a) ==
  CASE a = "policy" -> "PolicyAgent"
    [] a = "account" -> "AccountAgent"
    [] a = "transaction" -> "TransactionAgent"
    [] a = "analytics" -> "AnalyticsAgent"
    [] a = "escalation" -> "EscalationAgent"

\* keyword_matches >= 2 / == 1 / else, shared shape of every can_handle
Graduated(n, one) ==
  IF n >= 2 THEN [can |-> TRUE, conf |-> 90]
  ELSE IF n = 1 THEN [can |-> TRUE, conf |-> one]
  ELSE [can |-> FALSE, conf |-> 0]

policy_keywords ==
  { "policy", "benefit", "eligibility", "credit limit", "fee", "rewards",
    "program", "insurance", "protection", "coverage", "annual fee",
    "interest rate", "apr", "cash advance", "foreign transaction", "travel",
    "purchase protection", "extended warranty", "what is", "explain",
    "tell me about", "how does", "what are the" }

PolicyCanHandle(s) ==
  IF s.intent = "policy_query" THEN [can |-> TRUE, conf |-> 95]
  ELSE Graduated(Count(policy_keywords, Lower(s.user_query)), 70)

account_keywords ==
  { "account", "balance", "credit limit", "available credit",
    "spending limit", "authorized user", "add user", "remove user",
    "account info", "account settings", "account status", "credit line",
    "increase limit", "decrease limit", "my account", "account summary",
    "check balance", "available funds", "how much credit" }

AccountCanHandle(s) ==
  IF s.intent = "account_management" THEN [can |-> TRUE, conf |-> 95]
  ELSE Graduated(Count(account_keywords, Lower(s.user_query)), 75)

transaction_keywords ==
  { "transaction", "charge", "purchase", "payment", "statement", "dispute",
    "refund", "merchant", "receipt", "download", "recent transactions",
    "transaction history", "spending", "what did i spend", "show my",
    "find transaction" }

TransactionCanHandle(s) ==
  IF s.intent \in {"transaction_inquiry", "dispute_filing"}
  THEN [can |-> TRUE, conf |-> 95]
  ELSE Graduated(Count(transaction_keywords, Lower(s.user_query)), 75)

analytics_keywords ==
  { "analytics", "report", "spending", "trend", "budget", "expense",
    "category", "breakdown", "analysis", "insight", "how much spent",
    "spending by", "monthly spending", "track", "compliance", "over budget" }

AnalyticsCanHandle(s) ==
  IF s.intent = "analytics_request" THEN [can |-> TRUE, conf |-> 95]
  ELSE Graduated(Count(analytics_keywords, Lower(s.user_query)), 70)

escalation_keywords ==
  { "escalate", "manager", "supervisor", "complaint", "speak to human",
    "not satisfied", "unhappy", "frustrated", "this is ridiculous",
    "want to cancel", "close account", "legal", "lawyer", "fraud",
    "stolen card", "emergency", "urgent", "immediately" }

EscalationCanHandle(s) ==
  IF s.intent = "escalation" THEN [can |-> TRUE, conf |-> 95]
  ELSE IF s.escalation_required THEN [can |-> TRUE, conf |-> 100]
  ELSE Graduated(Count(escalation_keywords, Lower(s.user_query)), 80)

\* agent.can_handle(state), by dynamic dispatch
CanHandle(a, s) ==
  CASE a = "policy" -> PolicyCanHandle(s)
    [] a = "account" -> AccountCanHandle(s)
    [] a = "transaction" -> TransactionCanHandle(s)
    [] a = "analytics" -> AnalyticsCanHandle(s)
    [] a = "escalation" -> EscalationCanHandle(s)

\* agent.should_escalate(state), by dynamic dispatch
PolicyShouldEscalate(s) ==
  AnyIn({ "complaint", "dispute policy", "disagree with", "unfair",
          "manager", "supervisor" }, Lower(s.user_query))

AccountShouldEscalate(s) ==
  AnyIn({ "fraud", "unauthorized", "dispute", "close account",
          "cancel card", "complaint" }, Lower(s.user_query))

TransactionShouldEscalate(s) ==
  AnyIn({ "fraud", "stolen", "unauthorized", "scam" }, Lower(s.user_query))

ShouldEscalate(a, s) ==
  CASE a = "policy" -> PolicyShouldEscalate(s)
    [] a = "account" -> AccountShouldEscalate(s)
    [] a = "transaction" -> TransactionShouldEscalate(s)
    [] a = "analytics" -> FALSE
    [] a = "escalation" -> FALSE

\* ------------------------------------------------------------- turn state
\* context maps: a function from keys to values
EmptyContext == [k \in {} |-> None]

\* dict.get(key, default)
Get(ctx, k, default) == IF k \in DOMAIN ctx THEN ctx[k] ELSE default

\* dict.update(updates): keys are added or their values replaced
Merge(ctx, updates) ==
  [k \in DOMAIN ctx \cup DOMAIN updates |->
     IF k \in DOMAIN updates THEN updates[k] ELSE ctx[k]]

\* a plausible slip: updated_context is the caller's map itself, not a copy
update_context_in_place(s, updates) ==
  [s EXCEPT !.updated_context = Merge(@, updates),
            !.context = Merge(@, updates)]

\* BaseAgent.update_context; updated_context is always a key of the state
update_context(s, updates) ==
  [s EXCEPT !.updated_context = Merge(@, updates)]

\* BaseAgent.add_step: one entry appended to the trace
add_step(s, a, action) ==
  [s EXCEPT !.agent_steps =
     Append(@, [agent_name |-> AgentName(a), action |-> action])]

\* BaseAgent.format_response
format_response(a, text, follow_ups, quote) ==
  [text |-> text, follow_up_options |-> follow_ups, quote |-> quote,
   agent_name |-> AgentName(a)]

\* final_response before any responder has run
NoText == << None >>

\* the state process_message hands to the graph
InitialState(q, ctx) ==
  [ user_query |-> q, context |-> ctx,
    active_agent |-> None, consulted_agents |-> << >>,
    agent_steps |-> << >>, agent_handoffs |-> << >>,
    intent |-> None, requires_collaboration |-> FALSE,
    primary_agent |-> None, secondary_agents |-> << >>,
    final_response |-> NoText, follow_up_options |-> << >>, quote |-> None,
    updated_context |-> ctx, confidence_score |-> 0,
    escalation_required |-> FALSE, error |-> None,
    primary_response |-> << >>, secondary_responses |-> << >> ]

\* What the surroundings answer during one execute: the mock service
\* (a result, success = False, or an exception such as a missing service),
\* the completion call, the retrieval, and whether a fault gets out of
\* execute's own handler (one raised inside the except block itself).
NormalEnv == [svc |-> "ok", llm |-> "ok", rag |-> "hits", escape |-> FALSE]

\* The surroundings of one turn answer every responder of the turn alike; a
\* fault that escapes does so in the primary's or in a secondary's execute.
NormalTurnEnv == [svc |-> "ok", llm |-> "ok", rag |-> "hits", escape |-> "no"]
TurnEnvs ==
  { NormalTurnEnv,
    [NormalTurnEnv EXCEPT !.llm = "fail"],
    [NormalTurnEnv EXCEPT !.svc = "fail"],
    [NormalTurnEnv EXCEPT !.svc = "raise"],
    [NormalTurnEnv EXCEPT !.rag = "none"],
    [NormalTurnEnv EXCEPT !.rag = "none", !.llm = "fail"],
    [NormalTurnEnv EXCEPT !.escape = "primary"],
    [NormalTurnEnv EXCEPT !.escape = "secondary"] }

\* the surroundings as the responder running in `role` meets them
EnvOf(turn_env, role) == [turn_env EXCEPT !.escape = (turn_env.escape = role)]

\* llm_result.get("response", default): call_llm answers "response": ""
\* on every failure, so the default is never taken
LlmText(e) == IF e.llm = "ok" THEN << "llm" >> ELSE << >>

\* ------------------------------------------------------------- domain responders
\* the handler execute dispatches to, on the lower-cased utterance
AccountHandler(q) ==
  IF AnyIn({"balance", "how much", "available"}, q) THEN "balance"
  ELSE IF AnyIn({"limit", "increase", "decrease", "change"}, q) THEN "limit"
  ELSE IF AnyIn({"authorized user", "add user", "remove user"}, q) THEN "user"
  ELSE IF AnyIn({"reward", "point"}, q) THEN "rewards"
  ELSE "general"

TransactionHandler(q) ==
  IF AnyIn({"dispute", "fraud", "unauthorized", "didn't make"}, q) THEN "dispute"
  ELSE IF AnyIn({"statement", "download", "export"}, q) THEN "statement"
  ELSE IF AnyIn({"find", "search", "look for"}, q) THEN "search"
  ELSE "list"

AnalyticsHandler(q) ==
  IF AnyIn({"category", "breakdown", "by category"}, q) THEN "category"
  ELSE IF AnyIn({"trend", "over time", "monthly", "weekly"}, q) THEN "trend"
  ELSE IF AnyIn({"budget", "on track", "over budget"}, q) THEN "budget"
  ELSE IF AnyIn({"report", "expense report", "export"}, q) THEN "report"
  ELSE "general"

\* What a handler does: the step it opens with, whether it calls the mock
\* service, the steps between the service and the completion call, whether
\* the text comes from the completion call, its context update, its
\* follow-ups and whether it returns a summary card.
HandlerInfo(a, h) ==
  CASE a = "account" /\ h = "balance" ->
         [ pre |-> "retrieving_balance", svc |-> TRUE,
           mid |-> << "balance_retrieved", "generating_response" >>, llm |-> TRUE,
           ctx |-> [support_category |-> "account", balance_checked |-> "True",
                    current_balance |-> "data"],
           follow |-> << "View recent transactions", "Request credit limit increase",
                         "Set up balance alerts", "Download statement" >>,
           quote |-> "quote" ]
    [] a = "account" /\ h = "limit" ->
         [ pre |-> "reviewing_limits", svc |-> TRUE, mid |-> << >>, llm |-> FALSE,
           ctx |-> [support_category |-> "account", limit_inquiry |-> "True"],
           follow |-> << "Request credit limit increase", "Modify per-transaction limit",
                         "Adjust daily spending limit", "View account details" >>,
           quote |-> None ]
    [] a = "account" /\ h = "user" ->
         [ pre |-> "checking_authorized_users", svc |-> TRUE, mid |-> << >>,
           llm |-> FALSE,
           ctx |-> [support_category |-> "account",
                    user_management_inquiry |-> "True"],
           follow |-> << "Add authorized user", "Remove authorized user",
                         "View user spending", "Set user limits" >>,
           quote |-> None ]
    [] a = "account" /\ h = "rewards" ->
         [ pre |-> "retrieving_rewards", svc |-> TRUE, mid |-> << >>, llm |-> FALSE,
           ctx |-> [support_category |-> "rewards",
                    rewards_balance_checked |-> "True", rewards_balance |-> "data"],
           follow |-> << "Redeem rewards", "View earning history",
                         "Rewards program details", "Transfer to partners" >>,
           quote |-> "quote" ]
    [] a = "account" /\ h = "general" ->
         [ pre |-> "retrieving_account_info", svc |-> TRUE,
           mid |-> << "generating_response" >>, llm |-> TRUE,
           ctx |-> [support_category |-> "account", card_number_last4 |-> "data",
                    account_info_retrieved |-> "True"],
           follow |-> << "View recent transactions", "Check rewards balance",
                         "Update account settings", "Download statement" >>,
           quote |-> None ]
    [] a = "transaction" /\ h = "dispute" ->
         [ pre |-> "initiating_dispute", svc |-> FALSE, mid |-> << >>, llm |-> FALSE,
           ctx |-> [support_category |-> "transactions", dispute_needed |-> "True"],
           follow |-> << "Show recent transactions", "I have transaction details",
                         "Contact support" >>,
           quote |-> None ]
    [] a = "transaction" /\ h = "statement" ->
         [ pre |-> "preparing_statement", svc |-> TRUE, mid |-> << >>, llm |-> FALSE,
           ctx |-> EmptyContext,
           follow |-> << "Download PDF", "Download CSV", "Download Excel",
                         "View transactions" >>,
           quote |-> None ]
    [] a = "transaction" /\ h = "search" ->
         [ pre |-> "searching_transactions", svc |-> FALSE, mid |-> << >>,
           llm |-> FALSE, ctx |-> EmptyContext,
           follow |-> << "Search by merchant", "Search by date", "Search by amount",
                         "Show all transactions" >>,
           quote |-> None ]
    [] a = "transaction" /\ h = "list" ->
         [ pre |-> "retrieving_transactions", svc |-> TRUE,
           mid |-> << "formatting_transactions" >>, llm |-> TRUE,
           ctx |-> [support_category |-> "transactions",
                    transactions_viewed |-> "True"],
           follow |-> << "View all transactions", "Search for a transaction",
                         "Download statement", "File a dispute" >>,
           quote |-> None ]
    [] a = "analytics" /\ h = "category" ->
         [ pre |-> "analyzing_categories", svc |-> TRUE,
           mid |-> << "generating_category_report" >>, llm |-> TRUE,
           ctx |-> [support_category |-> "analytics", analytics_viewed |-> "True"],
           follow |-> << "View all categories", "See spending trends",
                         "Generate report", "Check budget" >>,
           quote |-> None ]
    [] a = "analytics" /\ h = "trend" ->
         [ pre |-> "analyzing_trends", svc |-> TRUE, mid |-> << >>, llm |-> FALSE,
           ctx |-> EmptyContext,
           follow |-> << "View category breakdown", "Generate detailed report",
                         "Check budget status" >>,
           quote |-> None ]
    [] a = "analytics" /\ h = "budget" ->
         [ pre |-> "analyzing_budget", svc |-> TRUE, mid |-> << >>, llm |-> FALSE,
           ctx |-> EmptyContext,
           follow |-> << "View spending details", "Set budget alerts",
                         "Generate compliance report" >>,
           quote |-> None ]
    [] a = "analytics" /\ h = "report" ->
         [ pre |-> "generating_report", svc |-> TRUE, mid |-> << >>, llm |-> FALSE,
           ctx |-> EmptyContext,
           follow |-> << "Download report", "View details",
                         "Generate another report" >>,
           quote |-> None ]
    [] a = "analytics" /\ h = "general" ->
         [ pre |-> "generating_analytics_menu", svc |-> FALSE, mid |-> << >>,
           llm |-> TRUE, ctx |-> EmptyContext,
           follow |-> << "Category breakdown", "Spending trends", "Budget analysis",
                         "Generate report" >>,
           quote |-> None ]

\* _handle_service_error / _error_response: the service answered success = False
ServiceErrorFollowUps(a) ==
  IF a = "account" THEN << "Try again", "Contact support", "Ask another question" >>
  ELSE << "Try again", "Contact support" >>

RECURSIVE AddSteps(_, _, _)
AddSteps(s, a, actions) ==
  IF actions = << >> THEN s
  ELSE AddSteps(add_step(s, a, Head(actions)), a, Tail(actions))

\* execute of the account, transaction and analytics responders: the handler
\* runs inside try; an exception of the service is caught, recorded in
\* state["error"] and answered with the responder's apology.
DomainExecute(a, s, e) ==
  LET q == Lower(s.user_query)
      h == CASE a = "account" -> AccountHandler(q)
             [] a = "transaction" -> TransactionHandler(q)
             [] a = "analytics" -> AnalyticsHandler(q)
      H == HandlerInfo(a, h)
      s1 == add_step(s, a, H.pre)
  IN IF H.svc /\ e.svc = "raise"
     THEN [ state |-> [s1 EXCEPT !.error = "error"],
            result |-> format_response(a, << "apology" >>,
                                       << "Try again", "Contact support" >>, None) ]
     ELSE IF H.svc /\ e.svc = "fail"
     THEN [ state |-> s1,
            result |-> format_response(a, << "service_error" >>,
                                       ServiceErrorFollowUps(a), None) ]
     ELSE LET s2 == AddSteps(s1, a, H.mid)
              s3 == IF H.ctx = EmptyContext THEN s2 ELSE update_context(s2, H.ctx)
          IN [ state |-> s3,
               result |-> format_response(
                            a, IF H.llm THEN LlmText(e) ELSE << "static" >>,
                            H.follow, H.quote) ]

\* PolicyAgent.get_follow_up_options
PolicyFollowUps(q) ==
  IF AnyIn({"fee", "charge", "cost"}, q)
  THEN << "What other fees apply?", "How can I avoid fees?", "View fee schedule" >>
  ELSE IF AnyIn({"reward", "point", "redeem"}, q)
  THEN << "How do I redeem rewards?", "Check my rewards balance",
          "What's my earning rate?" >>
  ELSE IF AnyIn({"travel", "international", "foreign"}, q)
  THEN << "Travel insurance details", "Foreign transaction fees",
          "Travel notification" >>
  ELSE IF AnyIn({"benefit", "insurance", "protection"}, q)
  THEN << "How to file a claim", "Coverage limits", "View all benefits" >>
  ELSE << "View all card benefits", "Fee schedule", "Ask another policy question" >>

\* PolicyAgent.execute: retrieval never raises (rag_search catches), a failed
\* completion call is answered by _handle_llm_error
PolicyExecute(s, e) ==
  LET a == "policy"
      s1 == add_step(s, a, "searching_policy_documents")
      s2 == add_step(s1, a, IF e.rag = "hits" THEN "documents_retrieved"
                            ELSE "no_documents_found")
      s3 == add_step(s2, a, "generating_response")
  IN IF e.llm # "ok"
     THEN [ state |-> s3,
            result |-> format_response(a, << "llm_error" >>,
                                       << "Try again", "Contact support" >>, None) ]
     ELSE [ state |-> add_step(
                        update_context(s3,
                          [support_category |-> "policy",
                           consulted_documents |-> IF e.rag = "hits" THEN "some" ELSE "0",
                           last_policy_query |-> "query"]),
                        a, "response_complete"),
            result |-> format_response(a, << "llm" >>,
                                       PolicyFollowUps(Lower(s.user_query)), None) ]

\* ------------------------------------------------------------- escalation responder
skip_keywords ==
  { "skip", "speak to someone now", "immediate", "now", "don't want to answer" }

\* EscalationAgent._assess_escalation: << escalation_type, priority >>
assess_escalation(q) ==
  IF AnyIn({"fraud", "stolen", "unauthorized", "scam", "emergency"}, q)
  THEN << "fraud_security", "critical" >>
  ELSE IF AnyIn({"close account", "cancel", "terminate"}, q)
  THEN << "account_closure", "high" >>
  ELSE IF AnyIn({"complaint", "unsatisfied", "unhappy", "frustrated"}, q)
  THEN << "complaint", "medium" >>
  ELSE IF AnyIn({"manager", "supervisor", "speak to human"}, q)
  THEN << "general_escalation", "medium" >>
  ELSE IF AnyIn({"can't access", "locked out", "not working"}, q)
  THEN << "technical_issue", "high" >>
  ELSE << "general_escalation", "medium" >>

\* EscalationAgent._get_escalation_follow_ups
escalation_follow_ups(escalation_type) ==
  IF escalation_type = "fraud_security"
  THEN << "I have more information to add", "Check escalation status",
          "Speak with fraud team now" >>
  ELSE << "Add more details to my case", "Check escalation status",
          "Contact me another way", "I need immediate help" >>

\* EscalationAgent._gather_information
gather_information(s, e) ==
  LET a == "escalation"
      assessed == assess_escalation(Lower(s.user_query))
      s1 == add_step(add_step(s, a, "assessing_issue"), a, "gathering_information")
      s2 == update_context(s1,
              [escalation_phase |-> "gathering_info",
               escalation_type |-> assessed[1],
               priority |-> assessed[2],
               support_category |-> "escalation"])
  IN [ state |-> [s2 EXCEPT !.escalation_required = FALSE],
       result |-> format_response(a, LlmText(e),
                    << "I'd rather speak to someone now",
                       "Skip questions and escalate" >>, None) ]

\* a value taken from the caller's context is a str (None, JSON null, is not)
IsStr(v) == v # None

\* EscalationAgent._create_ticket_with_info, run inside execute's try:
\* _build_escalation_response formats priority.upper(), which raises for a
\* priority that is no string; execute's handler then records the error and
\* returns the apology, and the statements after the raise are not reached.
create_ticket_with_info(s, e) ==
  LET a == "escalation"
      escalation_type == Get(s.context, "escalation_type", "general_escalation")
      priority == Get(s.context, "priority", "medium")
      s1 == AddSteps(s, a, << "processing_information", "ticket_created",
                              "generating_escalation_response" >>)
  IN IF ~IsStr(priority)
     THEN [ state |-> [s1 EXCEPT !.error = "error"],
            result |-> format_response(a, << "apology" >>,
                         << "Contact support now", "Try again later" >>, None) ]
     ELSE [ state |->
              [ update_context(s1,
                  [support_category |-> "escalation",
                   escalation_ticket |-> "ticket_id",
                   escalation_type |-> escalation_type,
                   priority |-> priority,
                   escalation_phase |-> "completed"])
                EXCEPT !.escalation_required = FALSE ],
            result |-> format_response(a, LlmText(e),
                         escalation_follow_ups(escalation_type), None) ]

\* a plausible slip: the questions are asked whatever the phase
EscalationExecuteAlwaysGathering(s, e) == gather_information(s, e)

\* EscalationAgent.execute
EscalationExecute(s, e) ==
  LET escalation_phase == Get(s.context, "escalation_phase", "initial")
      wants_to_skip == AnyIn(skip_keywords, Lower(s.user_query))
  IN IF escalation_phase = "initial" /\ ~wants_to_skip
     THEN gather_information(s, e)
     ELSE create_ticket_with_info(s, e)

\* agent.execute(state), by dynamic dispatch: the state as execute left it,
\* the result it returned, and whether it raised instead of returning
Execute(a, s, e) ==
  [ raised |-> e.escape ]
  @@ CASE a = "policy" -> PolicyExecute(s, e)
       [] a = "escalation" -> EscalationExecute(s, e)
       [] OTHER -> DomainExecute(a, s, e)

\* ------------------------------------------------------------- graph nodes
\* _classify_intent, the if/elif chain over the lower-cased query
intent(query) ==
  IF AnyIn({"policy", "benefit", "fee", "eligibility", "what is", "explain"}, query)
  THEN "policy_query"
  ELSE IF AnyIn({"balance", "limit", "account", "credit", "authorized user"}, query)
  THEN "account_management"
  ELSE IF AnyIn({"transaction", "charge", "statement", "purchase"}, query)
  THEN "transaction_inquiry"
  ELSE IF AnyIn({"dispute", "fraud", "unauthorized"}, query)
  THEN "dispute_filing"
  ELSE IF AnyIn({"analytics", "spending", "trend", "report", "budget"}, query)
  THEN "analytics_request"
  ELSE IF AnyIn({"escalate", "manager", "complaint", "speak to"}, query)
  THEN "escalation"
  ELSE "general_question"

domain_keywords ==
  [ policy |-> {"policy", "benefit", "fee"},
    account |-> {"balance", "limit", "account"},
    transaction |-> {"transaction", "charge"},
    analytics |-> {"analytics", "spending", "report"} ]

\* a plausible slip: every matching keyword is counted, not every domain
domains_mentioned_per_keyword(query) ==
  Count(UNION { domain_keywords[d] : d \in DOMAIN domain_keywords }, query)

\* _classify_intent: sum(1 for domain, keywords in domain_keywords.items()
\*                       if any(kw in query for kw in keywords))
domains_mentioned(query) ==
  Cardinality({ d \in DOMAIN domain_keywords : AnyIn(domain_keywords[d], query) })

\* AgentOrchestrator._classify_intent
classify_intent(s) ==
  LET query == Lower(s.user_query)
  IN IF domains_mentioned(query) >= 2
     THEN [s EXCEPT !.intent = "multi_domain", !.requires_collaboration = TRUE]
     ELSE [s EXCEPT !.intent = intent(query)]

\* a plausible slip: >= in place of >, so that the last of equals wins
RECURSIVE PollAgentsLastWins(_, _, _, _)
PollAgentsLastWins(s, i, best, polled) ==
  IF i > Len(AgentOrder) THEN [best |-> best, polled |-> polled]
  ELSE LET agent_name == AgentOrder[i]
           answer == CanHandle(agent_name, s)
       IN PollAgentsLastWins(s, i + 1,
            IF answer.can /\ answer.conf >= best.conf
            THEN [agent |-> agent_name, conf |-> answer.conf]
            ELSE best,
            Append(polled, agent_name))

\* the polling loop of _route_to_agent over self.agents.items(), from the
\* i-th responder on: the best so far and the responders polled
RECURSIVE PollAgents(_, _, _, _)
PollAgents(s, i, best, polled) ==
  IF i > Len(AgentOrder) THEN [best |-> best, polled |-> polled]
  ELSE LET agent_name == AgentOrder[i]
           answer == CanHandle(agent_name, s)
       IN PollAgents(s, i + 1,
            IF answer.can /\ answer.conf > best.conf
            THEN [agent |-> agent_name, conf |-> answer.conf]
            ELSE best,
            Append(polled, agent_name))

\* a plausible slip: the escalation flag is left to the escalation
\* responder's can_handle, which answers (True, 1.0) when it is set
route_to_agent_by_polling(s) ==
  LET r == PollAgents(s, 1, [agent |-> None, conf |-> 0], << >>)
      best == IF r.best.agent = None THEN [agent |-> "policy", conf |-> 50]
              ELSE r.best
  IN [ state |-> [s EXCEPT !.primary_agent = best.agent,
                           !.active_agent = best.agent,
                           !.confidence_score = best.conf],
       polled |-> r.polled ]

\* AgentOrchestrator._route_to_agent: the state it returns and the
\* responders whose can_handle it called
route_to_agent(s) ==
  IF s.escalation_required
  THEN [ state |-> [s EXCEPT !.primary_agent = "escalation",
                             !.active_agent = "escalation"],
         polled |-> << >> ]
  ELSE LET r == PollAgents(s, 1, [agent |-> None, conf |-> 0], << >>)
           best == IF r.best.agent = None THEN [agent |-> "policy", conf |-> 50]
                   ELSE r.best
       IN [ state |-> [s EXCEPT !.primary_agent = best.agent,
                                !.active_agent = best.agent,
                                !.confidence_score = best.conf],
            polled |-> r.polled ]

\* x in list
InSeq(x, seq) == \E i \in 1..Len(seq) : seq[i] = x

\* if agent_name not in state["consulted_agents"]: append
Consult(s, a) ==
  IF InSeq(a, s.consulted_agents) THEN s
  ELSE [s EXCEPT !.consulted_agents = Append(@, a)]

\* AgentOrchestrator._execute_primary_agent
execute_primary_agent(s, e) ==
  LET agent_name == s.primary_agent
  IN CHOOSE after \in
       { IF x.raised THEN [state |-> x.state, raised |-> TRUE]
         ELSE LET s1 == [x.state EXCEPT
                           !.primary_response = << x.result >>,
                           !.final_response = x.result.text,
                           !.follow_up_options = x.result.follow_up_options,
                           !.quote = x.result.quote]
              IN [ state |-> IF ShouldEscalate(agent_name, s1)
                             THEN [s1 EXCEPT !.escalation_required = TRUE]
                             ELSE s1,
                   raised |-> FALSE ]
         : x \in { Execute(agent_name, Consult(s, agent_name), e) } } : TRUE

\* a plausible slip: the primary is not skipped
check_collaboration_with_primary(s) ==
  IF s.requires_collaboration
  THEN LET Chosen(agent_name) ==
             /\ agent_name # "escalation"
             /\ CanHandle(agent_name, s).can
             /\ CanHandle(agent_name, s).conf > 50
       IN [s EXCEPT !.secondary_agents = SelectSeq(AgentOrder, Chosen)]
  ELSE s

\* AgentOrchestrator._check_collaboration
check_collaboration(s) ==
  IF s.requires_collaboration
  THEN LET Chosen(agent_name) ==
             /\ agent_name # s.primary_agent
             /\ agent_name # "escalation"
             /\ CanHandle(agent_name, s).can
             /\ CanHandle(agent_name, s).conf > 50
       IN [s EXCEPT !.secondary_agents = SelectSeq(AgentOrder, Chosen)]
  ELSE s

\* AgentOrchestrator._should_collaborate
should_collaborate(s) ==
  s.requires_collaboration /\ Len(s.secondary_agents) > 0

\* a plausible slip: every handoff is recorded as coming from the primary
RECURSIVE SecondaryLoopFromPrimary(_, _, _, _, _)
SecondaryLoopFromPrimary(s, i, e, secondary_responses, invoked) ==
  IF i > Len(s.secondary_agents)
  THEN [ state |-> [s EXCEPT !.secondary_responses = secondary_responses],
         raised |-> FALSE, invoked |-> invoked ]
  ELSE LET agent_name == s.secondary_agents[i]
           s1 == [s EXCEPT !.agent_handoffs =
                    Append(@, [from_agent |-> s.primary_agent,
                               to_agent |-> agent_name])]
           s2 == Consult([s1 EXCEPT !.active_agent = agent_name], agent_name)
       IN CHOOSE after \in
            { IF x.raised
              THEN [ state |-> x.state, raised |-> TRUE,
                     invoked |-> Append(invoked, agent_name) ]
              ELSE SecondaryLoopFromPrimary(x.state, i + 1, e,
                     Append(secondary_responses,
                            [agent |-> agent_name, response |-> x.result]),
                     Append(invoked, agent_name))
              : x \in { Execute(agent_name, s2, e) } } : TRUE

\* the loop of _execute_secondary_agents from the i-th secondary on
RECURSIVE SecondaryLoop(_, _, _, _, _)
SecondaryLoop(s, i, e, secondary_responses, invoked) ==
  IF i > Len(s.secondary_agents)
  THEN [ state |-> [s EXCEPT !.secondary_responses = secondary_responses],
         raised |-> FALSE, invoked |-> invoked ]
  ELSE LET agent_name == s.secondary_agents[i]
           s1 == [s EXCEPT !.agent_handoffs =
                    Append(@, [from_agent |-> s.active_agent,
                               to_agent |-> agent_name])]
           s2 == Consult([s1 EXCEPT !.active_agent = agent_name], agent_name)
       IN CHOOSE after \in
            { IF x.raised
              THEN [ state |-> x.state, raised |-> TRUE,
                     invoked |-> Append(invoked, agent_name) ]
              ELSE SecondaryLoop(x.state, i + 1, e,
                     Append(secondary_responses,
                            [agent |-> agent_name, response |-> x.result]),
                     Append(invoked, agent_name))
              : x \in { Execute(agent_name, s2, e) } } : TRUE

\* a plausible slip: the secondaries' should_escalate is honoured as well
execute_secondary_agents_escalating(s, e) ==
  CHOOSE after \in
    { IF ~r.raised /\ \E k \in 1..Len(r.invoked) : ShouldEscalate(r.invoked[k], r.state)
      THEN [r EXCEPT !.state.escalation_required = TRUE]
      ELSE r
      : r \in { SecondaryLoop(s, 1, e, << >>, << >>) } } : TRUE

\* AgentOrchestrator._execute_secondary_agents
execute_secondary_agents(s, e) == SecondaryLoop(s, 1, e, << >>, << >>)

\* "Remove duplicates while preserving order": an option is appended unless
\* an earlier one put it in `seen`
RECURSIVE Unique(_)
Unique(items) ==
  IF items = << >> THEN << >>
  ELSE LET before == SubSeq(items, 1, Len(items) - 1)
           opt == items[Len(items)]
       IN Unique(before) \o (IF InSeq(opt, before) THEN << >> ELSE << opt >>)

\* a plausible slip: the list is not cut
TakeAll(seq, n) == seq

\* list[:n]
Take(seq, n) == SubSeq(seq, 1, IF Len(seq) < n THEN Len(seq) ELSE n)

RECURSIVE SecondaryTexts(_)
SecondaryTexts(rs) ==
  IF rs = << >> THEN << >>
  ELSE << "From", Head(rs).agent >> \o Head(rs).response.text
       \o SecondaryTexts(Tail(rs))

RECURSIVE SecondaryFollowUps(_)
SecondaryFollowUps(rs) ==
  IF rs = << >> THEN << >>
  ELSE Head(rs).response.follow_up_options \o SecondaryFollowUps(Tail(rs))

\* AgentOrchestrator._synthesize_response; state.get("primary_response", {})
\* and state.get("secondary_responses", []) read keys that are not part of
\* AgentState.  all_follow_ups is the primary response's own list, which
\* extend() grows in place.
synthesize_response(s) ==
  LET has_primary == s.primary_response # << >>
      combined_text ==
        (IF has_primary THEN s.primary_response[1].text ELSE << >>)
        \o (IF s.secondary_responses # << >>
            THEN << "Additional Information" >> \o SecondaryTexts(s.secondary_responses)
            ELSE << >>)
      all_follow_ups ==
        (IF has_primary THEN s.primary_response[1].follow_up_options ELSE << >>)
        \o SecondaryFollowUps(s.secondary_responses)
  IN [s EXCEPT
        !.primary_response =
           IF has_primary
           THEN << [s.primary_response[1] EXCEPT !.follow_up_options = all_follow_ups] >>
           ELSE << >>,
        !.final_response = combined_text,
        !.follow_up_options = Take(Unique(all_follow_ups), 6)]

\* a plausible slip: the conditional edge always ends the run
needs_escalation_never(s) == FALSE

\* AgentOrchestrator._needs_escalation
needs_escalation(s) == s.escalation_required

\* the response process_message builds from the final state
FormatResponse(final_state) ==
  [ text |-> final_state.final_response,
    isUser |-> FALSE,
    active_agent |-> final_state.active_agent,
    consulted_agents |-> final_state.consulted_agents,
    agent_steps |-> final_state.agent_steps,
    agent_handoffs |-> final_state.agent_handoffs,
    follow_up_options |-> final_state.follow_up_options,
    quote |-> final_state.quote,
    context |-> final_state.updated_context,
    confidence_score |-> final_state.confidence_score ]

\* the response of process_message's except branch
ErrorResponse(ctx) ==
  [ text |-> << "I apologize, but I encountered an error processing your request. Please try again or contact support." >>,
    isUser |-> FALSE,
    active_agent |-> "error_handler",
    consulted_agents |-> << >>,
    agent_steps |-> << >>,
    agent_handoffs |-> << >>,
    follow_up_options |-> << "Try again", "Contact support" >>,
    quote |-> None,
    context |-> ctx,
    confidence_score |-> 0 ]

\* ------------------------------------------------------------- the turn
VARIABLES
  pc,                 \* the graph node to run next; "idle" before the call, "done" after
  context,            \* the context map the caller passes to process_message
  state,              \* the AgentState flowing through the graph
  response,           \* what process_message returned
  superSteps,         \* node executions of this run
  keepsExtraKeys,     \* whether the graph runtime hands keys that are not part of
                      \* AgentState (primary_response, secondary_responses) on to
                      \* the next node
  lastNode,           \* history: the node that ran last
  routeEntries,       \* history: entries of route_to_agent in this turn
  polled,             \* history: the responders the last route polled
  routedOnEscalation, \* history: escalation_required as the last route found it
  invoked,            \* history: the responders whose execute was invoked, in order
  caught,             \* history: what reached process_message's except branch
  env,                \* the surroundings of the turn
  s3_object,          \* the source document in the bucket: size and last-modified
  collection,         \* the chunks in the vector collection
  indexed_docs,       \* self.indexed_docs[s3_key]: << >> or one record
  ingest_pc,          \* per worker: where download_and_index_file stands
  head,               \* per worker: what head_object answered, << >> or one version
  texts,              \* per worker: the version downloaded and split, << >> or one
  existing_ids,       \* per worker: the ids collection.get answered
  ingest_result,      \* per worker: what download_and_index_file returned
  before,             \* history: collection and indexed_docs when the ingest began
  ops,                \* history: the collection calls the ingest made
  failed,             \* history: the steps of the ingest that raised
  observed,           \* history: what the last similarity query saw
  clear_pc,           \* where clear_index stands
  clear_result,       \* what clear_index returned, in a sequence; empty before it returns
  listing,            \* the keys the paginator yields to index_all_documents
  cursor,             \* the position of index_all_documents in the listing
  stats,              \* index_all_documents' counters
  visited,            \* history: the keys handed to download_and_index_file
  index_pc            \* where index_all_documents stands

turnVars ==
  << pc, context, state, response, superSteps, keepsExtraKeys, lastNode,
     routeEntries, polled, routedOnEscalation, invoked, caught, env >>

workerVars ==
  << ingest_pc, head, texts, existing_ids, ingest_result, before, ops, failed >>

clearVars == << clear_pc, clear_result >>

storeVars ==
  << s3_object, collection, indexed_docs, workerVars, observed, clearVars >>

listVars == << listing, cursor, stats, visited, index_pc >>

ragVars == << storeVars, listVars >>

vars == << turnVars, ragVars >>

\* contexts a caller may pass: a conversation's context carries what earlier
\* turns and the front end put there
CallerContexts ==
  { Merge(p, r) :
      p \in { EmptyContext, [escalation_phase |-> "gathering_info"],
              [escalation_phase |-> "completed"] },
      r \in { EmptyContext, [priority |-> "high"], [priority |-> None] } }

EmptyQuery == [toks |-> {}, upper |-> FALSE]

\* the latest user message: its text is a string, or None
Messages ==
  { [isStr |-> TRUE, text |-> q] : q \in Queries }
  \cup { [isStr |-> FALSE, text |-> EmptyQuery] }

NoResponse == [text |-> NoText]

\* what the graph runtime hands to the next node: the channels of AgentState
Channels(s) ==
  IF keepsExtraKeys THEN s
  ELSE [s EXCEPT !.primary_response = << >>, !.secondary_responses = << >>]

TurnInit ==
  /\ pc = "idle"
  /\ context \in CallerContexts
  /\ state = InitialState(EmptyQuery, context)
  /\ response = NoResponse
  /\ superSteps = 0
  /\ keepsExtraKeys \in BOOLEAN
  /\ lastNode = None
  /\ routeEntries = 0
  /\ polled = << >>
  /\ routedOnEscalation = FALSE
  /\ invoked = << >>
  /\ caught = None
  /\ env = NormalTurnEnv

\* process_message's except branch
Fail(what) ==
  /\ pc' = "done"
  /\ response' = ErrorResponse(context)
  /\ caught' = what

\* a node starts only while the run is within the runtime's step limit
CanStep(node) == pc = node /\ superSteps < RecursionLimit

Stepped(node) ==
  /\ superSteps' = superSteps + 1
  /\ lastNode' = node

\* process_message up to ainvoke: user_query[:50] raises for a text that is
\* no string
ProcessMessageFrom(messages) ==
  /\ pc = "idle"
  /\ \E m \in messages :
       IF m.isStr
       THEN /\ state' = InitialState(m.text, context)
            /\ pc' = "classify"
            /\ UNCHANGED << response, caught >>
       ELSE /\ Fail("input")
            /\ UNCHANGED state
  /\ env' \in TurnEnvs
  /\ lastNode' = "process_message"
  /\ UNCHANGED << context, superSteps, keepsExtraKeys, routeEntries, polled,
                  routedOnEscalation, invoked >>
  /\ UNCHANGED ragVars

ProcessMessage == ProcessMessageFrom(Messages)

ClassifyIntent ==
  /\ CanStep("classify")
  /\ state' = Channels(classify_intent(state))
  /\ pc' = "route"
  /\ Stepped("classify_intent")
  /\ UNCHANGED << context, response, keepsExtraKeys, routeEntries, polled,
                  routedOnEscalation, invoked, caught, env >>
  /\ UNCHANGED ragVars

RouteToAgent ==
  /\ CanStep("route")
  /\ \E r \in { route_to_agent(state) } :
       /\ state' = Channels(r.state)
       /\ polled' = r.polled
  /\ routedOnEscalation' = state.escalation_required
  /\ routeEntries' = routeEntries + 1
  /\ pc' = "execute_primary"
  /\ Stepped("route_to_agent")
  /\ UNCHANGED << context, response, keepsExtraKeys, invoked, caught, env >>
  /\ UNCHANGED ragVars

ExecutePrimaryAgent ==
  /\ CanStep("execute_primary")
  /\ \E r \in { execute_primary_agent(state, EnvOf(env, "primary")) } :
       IF r.raised
       THEN /\ Fail("responder")
            /\ UNCHANGED state
       ELSE /\ state' = Channels(r.state)
            /\ pc' = "check_collaboration"
            /\ UNCHANGED << response, caught >>
  /\ invoked' = Append(invoked, state.primary_agent)
  /\ Stepped("execute_primary_agent")
  /\ UNCHANGED << context, keepsExtraKeys, routeEntries, polled,
                  routedOnEscalation, env >>
  /\ UNCHANGED ragVars

\* the node and the conditional edge _should_collaborate after it
CheckCollaboration ==
  /\ CanStep("check_collaboration")
  /\ \E s \in { check_collaboration(state) } :
       /\ state' = Channels(s)
       /\ pc' = IF should_collaborate(s) THEN "execute_secondary"
                ELSE "check_escalation"
  /\ Stepped("check_collaboration")
  /\ UNCHANGED << context, response, keepsExtraKeys, routeEntries, polled,
                  routedOnEscalation, invoked, caught, env >>
  /\ UNCHANGED ragVars

ExecuteSecondaryAgents ==
  /\ CanStep("execute_secondary")
  /\ \E r \in { execute_secondary_agents(state, EnvOf(env, "secondary")) } :
       /\ IF r.raised
          THEN /\ Fail("responder")
               /\ UNCHANGED state
          ELSE /\ state' = Channels(r.state)
               /\ pc' = "synthesize"
               /\ UNCHANGED << response, caught >>
       /\ invoked' = invoked \o r.invoked
  /\ Stepped("execute_secondary_agents")
  /\ UNCHANGED << context, keepsExtraKeys, routeEntries, polled,
                  routedOnEscalation, env >>
  /\ UNCHANGED ragVars

SynthesizeResponse ==
  /\ CanStep("synthesize")
  /\ state' = Channels(synthesize_response(state))
  /\ pc' = "check_escalation"
  /\ Stepped("synthesize_response")
  /\ UNCHANGED << context, response, keepsExtraKeys, routeEntries, polled,
                  routedOnEscalation, invoked, caught, env >>
  /\ UNCHANGED ragVars

\* the pass-through node, the conditional edge _needs_escalation after it
\* and, at END, the rest of process_message
CheckEscalation ==
  /\ CanStep("check_escalation")
  /\ IF needs_escalation(state)
     THEN /\ pc' = "route"
          /\ UNCHANGED response
     ELSE /\ pc' = "done"
          /\ response' = FormatResponse(state)
  /\ Stepped("check_escalation")
  /\ UNCHANGED << context, state, keepsExtraKeys, routeEntries, polled,
                  routedOnEscalation, invoked, caught, env >>
  /\ UNCHANGED ragVars

\* the runtime's recursion error, raised by ainvoke into process_message
RecursionError ==
  /\ pc \notin {"idle", "done"}
  /\ superSteps >= RecursionLimit
  /\ Fail("recursion")
  /\ UNCHANGED << context, state, superSteps, keepsExtraKeys, lastNode,
                  routeEntries, polled, routedOnEscalation, invoked, env >>
  /\ UNCHANGED ragVars

\* ------------------------------------------------------------- document index
\* RAGManager of backend/rag_utils.py for one source key.  A version of the
\* source is its (ContentLength, LastModified); a version of size n splits
\* into n chunks, stored under the ids <key>_chunk_<i>.
Versions == [size : 1..MaxChunks, last_modified : 1..MaxVersions]

\* the threads of the executor that may run download_and_index_file at once
Workers == {1, 2}

\* the chunks download_and_index_file builds from a downloaded version
Chunks(v) == { [chunk_index |-> i, last_modified |-> v.last_modified] : i \in 1..v.size }

\* ids of the chunks in a collection
Ids(chunks) == { c.chunk_index : c \in chunks }

\* a plausible slip: the unchanged test never succeeds
UnchangedNever(docs, v) == FALSE

\* "if s3_key in self.indexed_docs" and size and last_modified both equal
Unchanged(docs, v) ==
  /\ docs # << >>
  /\ docs[1].size = v.size
  /\ docs[1].last_modified = v.last_modified

\* the keys a bucket may list
KeyNames == { "docs/", "a.pdf", "B.PDF", "c.exe", "README" }

\* s3_key.endswith('/')
IsFolder(s3_key) == s3_key = "docs/"

\* os.path.splitext(s3_key)[1].lower()
Ext(s3_key) ==
  CASE s3_key = "a.pdf" -> ".pdf"
    [] s3_key = "B.PDF" -> ".pdf"
    [] s3_key = "c.exe" -> ".exe"
    [] OTHER -> ""

supported_extensions ==
  { ".pdf", ".docx", ".doc", ".txt", ".md", ".pptx", ".ppt", ".xlsx", ".xls", ".csv" }

\* bucket listings: distinct keys in the order the paginator yields them
Listings ==
  UNION { { l \in [1..n -> KeyNames] : \A i, j \in 1..n : i # j => l[i] # l[j] }
          : n \in 0..MaxKeys }

\* a plausible slip: an unsupported file type is counted as a failure
CountedAsFailedWhenUnsupported(s3_key, indexed) ==
  IF IsFolder(s3_key) THEN None
  ELSE IF Ext(s3_key) \notin supported_extensions THEN "failed"
  ELSE IF indexed THEN "success" ELSE "failed"

\* the body of index_all_documents' loop for one key: the counter it raises,
\* None for a folder
Counted(s3_key, indexed) ==
  IF IsFolder(s3_key) THEN None
  ELSE IF Ext(s3_key) \notin supported_extensions THEN "skipped"
  ELSE IF indexed THEN "success" ELSE "failed"

IdleWorkers ==
  /\ ingest_pc = [w \in Workers |-> "idle"]
  /\ head = [w \in Workers |-> << >>]
  /\ texts = [w \in Workers |-> << >>]
  /\ existing_ids = [w \in Workers |-> {}]
  /\ ingest_result = [w \in Workers |-> None]
  /\ before = [w \in Workers |-> [collection |-> {}, indexed_docs |-> << >>]]
  /\ ops = [w \in Workers |-> {}]
  /\ failed = [w \in Workers |-> {}]

RagInit ==
  /\ s3_object \in { v \in Versions : v.last_modified = 1 }
  /\ collection = {}
  /\ indexed_docs = << >>
  /\ IdleWorkers
  /\ observed = << >>
  /\ clear_pc = "idle"
  /\ clear_result = << >>
  /\ listing = << >>
  /\ cursor = 1
  /\ stats = [success |-> 0, failed |-> 0, skipped |-> 0]
  /\ visited = << >>
  /\ index_pc = "idle"

\* the orchestrator's turns run over one fixed document
Init == TurnInit /\ RagInit /\ s3_object.size = 1

\* download_and_index_file returns
Return(w, value) ==
  /\ ingest_result' = [ingest_result EXCEPT ![w] = value]
  /\ ingest_pc' = [ingest_pc EXCEPT ![w] = "done"]

\* the bucket's owner replaces the document
SourceChanges ==
  /\ s3_object.last_modified < MaxVersions
  /\ \E n \in 1..MaxChunks :
       s3_object' = [size |-> n, last_modified |-> s3_object.last_modified + 1]
  /\ UNCHANGED << collection, indexed_docs, workerVars, observed, clearVars >>
  /\ UNCHANGED << turnVars, listVars >>

\* download_and_index_file from its call to the unchanged test: head_object
\* raises, or answers the current version
HeadObject(w) ==
  /\ ingest_pc[w] \in {"idle", "done"}
  /\ before' = [before EXCEPT ![w] =
                  [collection |-> collection, indexed_docs |-> indexed_docs]]
  /\ ops' = [ops EXCEPT ![w] = {}]
  /\ texts' = [texts EXCEPT ![w] = << >>]
  /\ existing_ids' = [existing_ids EXCEPT ![w] = {}]
  /\ observed' = << >>
  /\ \E answers \in BOOLEAN :
       IF ~answers
       THEN /\ Return(w, FALSE)
            /\ head' = [head EXCEPT ![w] = << >>]
            /\ failed' = [failed EXCEPT ![w] = {"head_object"}]
       ELSE /\ head' = [head EXCEPT ![w] = << s3_object >>]
            /\ failed' = [failed EXCEPT ![w] = {}]
            /\ IF Unchanged(indexed_docs, s3_object)
               THEN Return(w, TRUE)
               ELSE /\ ingest_pc' = [ingest_pc EXCEPT ![w] = "download"]
                    /\ ingest_result' = [ingest_result EXCEPT ![w] = None]
  /\ UNCHANGED << s3_object, collection, indexed_docs, clearVars >>
  /\ UNCHANGED << turnVars, listVars >>

\* get_object, the temporary file, loader.load, split_documents and
\* embed_documents: any of them raises, or the chunks are ready
DownloadAndEmbed(w) ==
  /\ ingest_pc[w] = "download"
  /\ \E succeeds \in BOOLEAN :
       IF succeeds
       THEN /\ texts' = [texts EXCEPT ![w] = << s3_object >>]
            /\ ingest_pc' = [ingest_pc EXCEPT ![w] = "lookup"]
            /\ UNCHANGED << ingest_result, failed >>
       ELSE /\ Return(w, FALSE)
            /\ failed' = [failed EXCEPT ![w] = @ \cup {"download"}]
            /\ UNCHANGED texts
  /\ UNCHANGED << s3_object, collection, indexed_docs, head, existing_ids,
                  before, ops, observed, clearVars >>
  /\ UNCHANGED << turnVars, listVars >>

\* "First, delete any existing chunks for this document": collection.get,
\* inside try / except: pass; with no ids found there is no delete call
GetExisting(w) ==
  /\ ingest_pc[w] = "lookup"
  /\ ops' = [ops EXCEPT ![w] = @ \cup {"get"}]
  /\ \E answers \in BOOLEAN :
       IF answers
       THEN /\ existing_ids' = [existing_ids EXCEPT ![w] = Ids(collection)]
            /\ ingest_pc' = [ingest_pc EXCEPT ![w] =
                               IF Ids(collection) = {} THEN "add" ELSE "delete"]
            /\ UNCHANGED failed
       ELSE /\ ingest_pc' = [ingest_pc EXCEPT ![w] = "add"]
            /\ failed' = [failed EXCEPT ![w] = @ \cup {"lookup"}]
            /\ UNCHANGED existing_ids
  /\ UNCHANGED << s3_object, collection, indexed_docs, head, texts,
                  ingest_result, before, observed, clearVars >>
  /\ UNCHANGED << turnVars, listVars >>

\* collection.delete(ids=existing_ids), inside the same try / except: pass
DeleteExisting(w) ==
  /\ ingest_pc[w] = "delete"
  /\ ops' = [ops EXCEPT ![w] = @ \cup {"delete"}]
  /\ \E succeeds \in BOOLEAN :
       IF succeeds
       THEN /\ collection' = { c \in collection : c.chunk_index \notin existing_ids[w] }
            /\ UNCHANGED failed
       ELSE /\ UNCHANGED collection
            /\ failed' = [failed EXCEPT ![w] = @ \cup {"delete"}]
  /\ ingest_pc' = [ingest_pc EXCEPT ![w] = "add"]
  /\ UNCHANGED << s3_object, indexed_docs, head, texts, existing_ids,
                  ingest_result, before, observed, clearVars >>
  /\ UNCHANGED << turnVars, listVars >>

\* collection.add: it raises; or it stores the chunks; for ids the collection
\* already holds, the store either raises or keeps what it holds and stores
\* only the other chunks
AddChunks(w) ==
  /\ ingest_pc[w] = "add"
  /\ ops' = [ops EXCEPT ![w] = @ \cup {"add"}]
  /\ \E outcome \in {"stored", "raised"} :
       IF outcome = "raised"
       THEN /\ Return(w, FALSE)
            /\ failed' = [failed EXCEPT ![w] = @ \cup {"add"}]
            /\ UNCHANGED collection
       ELSE /\ collection' = collection \cup
                 { c \in Chunks(texts[w][1]) : c.chunk_index \notin Ids(collection) }
            /\ ingest_pc' = [ingest_pc EXCEPT ![w] = "record"]
            /\ UNCHANGED << ingest_result, failed >>
  /\ UNCHANGED << s3_object, indexed_docs, head, texts, existing_ids, before,
                  observed, clearVars >>
  /\ UNCHANGED << turnVars, listVars >>

\* "Update indexed docs tracking": the record is assigned, then
\* _save_indexed_docs writes the file or raises
UpdateIndexedDocs(w) ==
  /\ ingest_pc[w] = "record"
  /\ indexed_docs' = << [ size |-> head[w][1].size,
                          last_modified |-> head[w][1].last_modified,
                          chunks |-> texts[w][1].size ] >>
  /\ \E saved \in BOOLEAN :
       /\ Return(w, saved)
       /\ failed' = [failed EXCEPT ![w] = IF saved THEN @ ELSE @ \cup {"save"}]
  /\ UNCHANGED << s3_object, collection, head, texts, existing_ids, before,
                  ops, observed, clearVars >>
  /\ UNCHANGED << turnVars, listVars >>

\* RAGManager.search on another thread: collection.query sees the collection
\* as it is now
Search ==
  /\ observed' = << [ chunks |-> collection,
                      during |-> \E w \in Workers :
                                   ingest_pc[w] \notin {"idle", "done"} ] >>
  /\ UNCHANGED << s3_object, collection, indexed_docs, workerVars, clearVars >>
  /\ UNCHANGED << turnVars, listVars >>

\* clear_index, "Delete and recreate the collection": delete_collection
\* raises; or the collection is dropped and create_collection gives an empty
\* one or raises
ClearCollection ==
  /\ clear_pc \in {"idle", "done"}
  /\ \E outcome \in {"not_deleted", "recreated", "not_recreated"} :
       IF outcome = "not_deleted"
       THEN /\ clear_pc' = "done"
            /\ clear_result' = << FALSE >>
            /\ UNCHANGED collection
       ELSE IF outcome = "recreated"
       THEN /\ clear_pc' = "records"
            /\ clear_result' = << >>
            /\ collection' = {}
       ELSE /\ clear_pc' = "done"
            /\ clear_result' = << FALSE >>
            /\ collection' = {}
  /\ UNCHANGED << s3_object, indexed_docs, workerVars, observed >>
  /\ UNCHANGED << turnVars, listVars >>

\* clear_index, "Clear indexed docs tracking": the map is emptied, then
\* _save_indexed_docs writes the file or raises
ClearRecords ==
  /\ clear_pc = "records"
  /\ indexed_docs' = << >>
  /\ clear_pc' = "done"
  /\ \E saved \in BOOLEAN : clear_result' = << saved >>
  /\ UNCHANGED << s3_object, collection, workerVars, observed >>
  /\ UNCHANGED << turnVars, listVars >>

\* index_all_documents is called: the paginator will yield some listing
ListObjects ==
  /\ index_pc = "idle"
  /\ listing' \in Listings
  /\ cursor' = 1
  /\ stats' = [success |-> 0, failed |-> 0, skipped |-> 0]
  /\ visited' = << >>
  /\ index_pc' = "listing"
  /\ UNCHANGED << turnVars, storeVars >>

\* one pass of the loop body: a folder is passed over, an unsupported type is
\* counted as skipped, any other key is handed to download_and_index_file,
\* which returns True or False
IndexKey ==
  /\ index_pc = "listing"
  /\ cursor <= Len(listing)
  /\ \E indexed \in BOOLEAN :
       \E counter \in { Counted(listing[cursor], indexed) } :
         /\ stats' = IF counter = None THEN stats
                     ELSE [stats EXCEPT ![counter] = @ + 1]
         /\ visited' = IF counter \in {"success", "failed"}
                       THEN Append(visited, listing[cursor])
                       ELSE visited
  /\ cursor' = cursor + 1
  /\ UNCHANGED << listing, index_pc >>
  /\ UNCHANGED << turnVars, storeVars >>

\* the listing is exhausted, or fetching the next page raises ClientError:
\* the statistics so far are returned
ReturnStats ==
  /\ index_pc = "listing"
  /\ listing' = SubSeq(listing, 1, cursor - 1)
  /\ index_pc' = "done"
  /\ UNCHANGED << cursor, stats, visited >>
  /\ UNCHANGED << turnVars, storeVars >>

Next ==
  \/ ProcessMessage
  \/ ClassifyIntent
  \/ RouteToAgent
  \/ ExecutePrimaryAgent
  \/ CheckCollaboration
  \/ ExecuteSecondaryAgents
  \/ SynthesizeResponse
  \/ CheckEscalation
  \/ RecursionError

\* one turn of the orchestrator, the document index left alone
Spec == Init /\ [][Next]_vars

RagNext ==
  \/ SourceChanges
  \/ HeadObject(1)
  \/ DownloadAndEmbed(1)
  \/ GetExisting(1)
  \/ DeleteExisting(1)
  \/ AddChunks(1)
  \/ UpdateIndexedDocs(1)
  \/ Search

\* two threads of the executor indexing the same key
WorkersNext ==
  \/ SourceChanges
  \/ \E w \in Workers : HeadObject(w)
  \/ \E w \in Workers : DownloadAndEmbed(w)
  \/ \E w \in Workers : GetExisting(w)
  \/ \E w \in Workers : DeleteExisting(w)
  \/ \E w \in Workers : AddChunks(w)
  \/ \E w \in Workers : UpdateIndexedDocs(w)

\* an indexing thread and clear_index on the request thread
ClearNext ==
  \/ SourceChanges
  \/ HeadObject(1)
  \/ DownloadAndEmbed(1)
  \/ GetExisting(1)
  \/ DeleteExisting(1)
  \/ AddChunks(1)
  \/ UpdateIndexedDocs(1)
  \/ ClearCollection
  \/ ClearRecords

\* one run of index_all_documents over a listing
IndexAllNext ==
  \/ ListObjects
  \/ IndexKey
  \/ ReturnStats

\* the front end sends the next message of the conversation with the context
\* the last response carried
NextTurn ==
  /\ pc = "done"
  /\ context' = response.context
  /\ pc' = "idle"
  /\ state' = InitialState(EmptyQuery, response.context)
  /\ response' = NoResponse
  /\ superSteps' = 0
  /\ lastNode' = None
  /\ routeEntries' = 0
  /\ polled' = << >>
  /\ routedOnEscalation' = FALSE
  /\ invoked' = << >>
  /\ caught' = None
  /\ env' = NormalTurnEnv
  /\ UNCHANGED keepsExtraKeys
  /\ UNCHANGED ragVars

\* what the user says in the conversations followed turn after turn
ConversationVocabulary ==
  { "urgent", "now", "hello", "account balance", "annual fee", "unfair" }

ConversationMessages ==
  { m \in Messages : m.isStr /\ m.text.toks \subseteq ConversationVocabulary }

\* process_message for one message of such a conversation
ConversationMessage == ProcessMessageFrom(ConversationMessages)

ConversationNext ==
  \/ ConversationMessage
  \/ ClassifyIntent
  \/ RouteToAgent
  \/ ExecutePrimaryAgent
  \/ CheckCollaboration
  \/ ExecuteSecondaryAgents
  \/ SynthesizeResponse
  \/ CheckEscalation
  \/ RecursionError
  \/ NextTurn

\* a conversation: turn after turn, each on the context the last one returned
ConversationSpec == Init /\ [][ConversationNext]_vars

\* the indexing worker and the queries, the orchestrator left idle
RagSpecInit ==
  /\ TurnInit
  /\ context = EmptyContext
  /\ keepsExtraKeys
  /\ RagInit

RagSpec == RagSpecInit /\ [][RagNext]_vars

WorkersSpec == RagSpecInit /\ [][WorkersNext]_vars

ClearSpec == RagSpecInit /\ [][ClearNext]_vars

IndexAllSpec == RagSpecInit /\ [][IndexAllNext]_vars

\* ------------------------------------------------------------- retrieval for a prompt
\* what collection.query does for one search: passages, none, or an exception
RetrievalOutcomes == {"hits", "empty", "raises"}

\* RAGManager.search: the formatted results, [] when the query raised
search_results(outcome) ==
  IF outcome = "hits" THEN << "passage" >> ELSE << >>

\* a plausible slip: the header and the source list are built for no results
get_context_for_prompt_unguarded(outcome) ==
  << "header" >> \o search_results(outcome) \o << "sources" >>

\* RAGManager.get_context_for_prompt: "" (no fragment) when search gave nothing
get_context_for_prompt(outcome) ==
  IF search_results(outcome) = << >> THEN << >>
  ELSE << "header" >> \o search_results(outcome) \o << "sources" >>

\* AgentTools.rag_search with a manager present
rag_search(outcome) ==
  [ success |-> TRUE, results |-> search_results(outcome),
    context |-> get_context_for_prompt(outcome) ]

\* PolicyAgent.execute, step 2, and _build_policy_prompt: which of the two
\* prompts is sent
policy_prompt(outcome) ==
  LET rag_result == rag_search(outcome)
      found == rag_result.success /\ rag_result.results # << >>
      rag_context == IF found THEN rag_result.context ELSE << >>
      has_rag_info == found /\ Len(rag_result.results) > 0
  IN IF has_rag_info /\ rag_context # << >> THEN "grounded" ELSE "ungrounded"

\* ------------------------------------------------------------- escalation tickets
\* the SLA table of _create_escalation_ticket
sla_hours ==
  [ p \in {"critical", "high", "medium", "low"} |->
      CASE p = "critical" -> 2 [] p = "high" -> 24 [] p = "medium" -> 48
        [] OTHER -> 72 ]

\* EscalationAgent._create_escalation_ticket: the priority as passed in and
\* sla_hours.get(priority, 48)
create_escalation_ticket(priority) ==
  [ priority |-> priority,
    sla_hours |-> IF priority \in DOMAIN sla_hours THEN sla_hours[priority] ELSE 48 ]

\* the ticket _create_ticket_with_info creates in a turn: its priority is
\* context.get("priority", "medium")
TicketOf(s) == create_escalation_ticket(Get(s.context, "priority", "medium"))

\* ------------------------------------------------------------- properties
\* C1: in every turn route is entered at most twice (the check_escalation ->
\* route re-entry is taken at most once).
C1_RouteAtMostTwice == routeEntries <= 2

\* C2: whenever the escalation responder's execute has returned,
\* escalation_required is false, on the question-gathering path, the
\* ticket-creation path and the path where execute caught a fault.
C2_EscalationClearsFlag ==
  ( /\ lastNode = "execute_primary_agent"
    /\ state.primary_agent = "escalation"
    /\ caught = None )
  => ~state.escalation_required

\* C3: process_message always returns a response that has every key of the
\* response object and a text that is not empty.
C3_CompleteResponse ==
  pc = "done" =>
    /\ { "text", "active_agent", "consulted_agents", "agent_steps",
         "agent_handoffs", "follow_up_options", "quote", "context",
         "confidence_score" } \subseteq DOMAIN response
    /\ response.text # << >>

\* C4: when a fault that escaped a responder was caught by process_message,
\* the result carries an error marker that is not None, the generic apology
\* and the suggestions "Try again" and "Contact support".
C4_FallbackRecordsError ==
  (pc = "done" /\ caught = "responder") =>
    /\ "error" \in DOMAIN response
    /\ response.error # None
    /\ response.text = ErrorResponse(context).text
    /\ response.follow_up_options = << "Try again", "Contact support" >>

\* C5: the consulted_agents list process_message returns, the fallback
\* response included, has no duplicate and holds the primary and every
\* secondary whose execute was invoked in the turn.
C5_ConsultedCoversInvoked ==
  pc = "done" =>
    /\ \A i, j \in 1..Len(response.consulted_agents) :
         response.consulted_agents[i] = response.consulted_agents[j] => i = j
    /\ \A k \in 1..Len(invoked) : InSeq(invoked[k], response.consulted_agents)

\* C6: a route step that found escalation_required false chose, among the
\* responders whose can_handle answers true, the one of greatest confidence
\* and among equals the one registered first; when none answers true it
\* chose policy with confidence 0.5.
C6_RoutePicksFirstBest ==
  (lastNode = "route_to_agent" /\ ~routedOnEscalation) =>
    LET claims == { i \in 1..Len(AgentOrder) : CanHandle(AgentOrder[i], state).can }
        conf(i) == CanHandle(AgentOrder[i], state).conf
    IN IF claims = {}
       THEN state.primary_agent = "policy" /\ state.confidence_score = 50
       ELSE \E i \in claims :
              /\ state.primary_agent = AgentOrder[i]
              /\ state.active_agent = AgentOrder[i]
              /\ state.confidence_score = conf(i)
              /\ \A j \in claims : conf(j) <= conf(i)
              /\ \A j \in claims : conf(j) = conf(i) => i <= j

\* two responders answer true with the same greatest confidence and the one
\* registered first is the primary
C6_Witness ==
  /\ lastNode = "route_to_agent"
  /\ ~routedOnEscalation
  /\ \E i, j \in 1..Len(AgentOrder) :
       /\ i < j
       /\ state.primary_agent = AgentOrder[i]
       /\ CanHandle(AgentOrder[i], state).can
       /\ CanHandle(AgentOrder[j], state).can
       /\ CanHandle(AgentOrder[j], state).conf = CanHandle(AgentOrder[i], state).conf
       /\ state.confidence_score = CanHandle(AgentOrder[i], state).conf

\* C7: a route step that found escalation_required true made the escalation
\* responder primary and active without polling any can_handle; every other
\* route step polled every responder.
C7_EscalationRouteSkipsPolling ==
  lastNode = "route_to_agent" =>
    IF routedOnEscalation
    THEN /\ state.primary_agent = "escalation"
         /\ state.active_agent = "escalation"
         /\ polled = << >>
    ELSE polled = AgentOrder

\* the re-route of a turn whose first primary asked for escalation
C7_Witness ==
  /\ lastNode = "route_to_agent"
  /\ routedOnEscalation
  /\ routeEntries = 2
  /\ state.primary_agent = "escalation"
  /\ polled = << >>

\* C8: after every route step confidence_score is the confidence the primary
\* was chosen with: 1.0 when the route was taken on escalation_required,
\* else the chosen responder's own answer (0.5 for the default).
C8_ConfidenceOfSelection ==
  lastNode = "route_to_agent" =>
    IF routedOnEscalation THEN state.confidence_score = 100
    ELSE \/ /\ CanHandle(state.primary_agent, state).can
            /\ state.confidence_score = CanHandle(state.primary_agent, state).conf
         \/ /\ \A a \in Agents : ~CanHandle(a, state).can
            /\ state.confidence_score = 50

\* C9: after classify, intent is multi_domain and requires_collaboration is
\* true exactly when the lower-cased query has keywords of at least two of
\* the four domain groups; otherwise requires_collaboration is false and
\* intent is the first match of the priority order, or general_question.
C9_ClassifyIntent ==
  lastNode = "classify_intent" =>
    LET query == [state.user_query EXCEPT !.upper = FALSE]
        groups == << {"policy", "benefit", "fee"}, {"balance", "limit", "account"},
                     {"transaction", "charge"}, {"analytics", "spending", "report"} >>
        order == << [tag |-> "policy_query",
                     words |-> {"policy", "benefit", "fee", "eligibility",
                                "what is", "explain"}],
                    [tag |-> "account_management",
                     words |-> {"balance", "limit", "account", "credit",
                                "authorized user"}],
                    [tag |-> "transaction_inquiry",
                     words |-> {"transaction", "charge", "statement", "purchase"}],
                    [tag |-> "dispute_filing",
                     words |-> {"dispute", "fraud", "unauthorized"}],
                    [tag |-> "analytics_request",
                     words |-> {"analytics", "spending", "trend", "report", "budget"}],
                    [tag |-> "escalation",
                     words |-> {"escalate", "manager", "complaint", "speak to"}] >>
        mentioned == { g \in 1..Len(groups) : \E w \in groups[g] : Has(query, w) }
        matches == { k \in 1..Len(order) : \E w \in order[k].words : Has(query, w) }
    IN IF Cardinality(mentioned) >= 2
       THEN state.intent = "multi_domain" /\ state.requires_collaboration
       ELSE /\ ~state.requires_collaboration
            /\ state.intent # "multi_domain"
            /\ IF matches = {} THEN state.intent = "general_question"
               ELSE \E k \in matches :
                      /\ state.intent = order[k].tag
                      /\ \A m \in matches : k <= m

\* an utterance typed in upper case that names two domains
C9_Witness ==
  /\ lastNode = "classify_intent"
  /\ state.user_query.upper
  /\ state.intent = "multi_domain"
  /\ state.requires_collaboration

\* C10: after check_collaboration with requires_collaboration true the
\* secondaries are exactly the responders other than the primary and the
\* escalation responder whose can_handle answers true with confidence > 0.5,
\* and execute_secondary comes next iff there is one.
C10_SecondarySet ==
  ( /\ lastNode = "check_collaboration"
    /\ state.requires_collaboration
    /\ pc \in {"execute_secondary", "check_escalation"} ) =>
    LET secondaries == { state.secondary_agents[i] :
                           i \in 1..Len(state.secondary_agents) }
    IN /\ secondaries =
            { a \in Agents \ {state.primary_agent, "escalation"} :
                CanHandle(a, state).can /\ CanHandle(a, state).conf > 50 }
       /\ state.primary_agent \notin secondaries
       /\ "escalation" \notin secondaries
       /\ Cardinality(secondaries) = Len(state.secondary_agents)
       /\ (pc = "execute_secondary") <=> (secondaries # {})

\* secondaries were chosen while the escalation responder, which is none of
\* them, also answers true with confidence > 0.5
C10_Witness ==
  /\ lastNode = "check_collaboration"
  /\ state.requires_collaboration
  /\ pc = "execute_secondary"
  /\ Len(state.secondary_agents) > 0
  /\ CanHandle("escalation", state).can
  /\ CanHandle("escalation", state).conf > 50

\* the first primary of the turn returned and its should_escalate answered true
C11_PrimaryAskedEscalation ==
  /\ Len(invoked) >= 1
  /\ ShouldEscalate(invoked[1], state)
  /\ ~(caught = "responder" /\ Len(invoked) = 1)

C12_OneHandoffPerSecondary ==
  caught = None =>
    LET primaries == IF pc = "execute_primary" THEN routeEntries - 1
                     ELSE routeEntries
        h == state.agent_handoffs
        sec == state.secondary_agents
        n == Len(sec)
    IN /\ Len(h) = Len(invoked) - primaries
       /\ lastNode = "execute_secondary_agents" =>
            \A i \in 1..n :
              /\ h[Len(h) - n + i].to_agent = sec[i]
              /\ h[Len(h) - n + i].from_agent =
                   (IF i = 1 THEN state.primary_agent ELSE sec[i - 1])
              /\ invoked[Len(invoked) - n + i] = sec[i]

\* three secondaries have run one after another
C12_Witness ==
  /\ lastNode = "execute_secondary_agents"
  /\ caught = None
  /\ Len(state.secondary_agents) = 3
  /\ Len(state.agent_handoffs) = 3
  /\ state.agent_handoffs[3].from_agent = state.secondary_agents[2]

\* C13: the trace process_message returns contains every step the responders
\* appended during the turn: the trace the graph state had accumulated is a
\* prefix of the returned one.
C13_ReturnedTraceComplete ==
  pc = "done" =>
    /\ Len(state.agent_steps) <= Len(response.agent_steps)
    /\ SubSeq(response.agent_steps, 1, Len(state.agent_steps)) = state.agent_steps

\* C14: the follow-ups synthesize yields are the first 6 distinct strings, in
\* first-seen order, of the primary's follow-up list followed by each
\* secondary's list in execution order; merging the result again gives the
\* same list.
C14_FollowUpMerge ==
  (lastNode = "synthesize_response" /\ caught = None) =>
    LET sec == state.secondary_agents
        Returned(a, role) ==
          Execute(a, state, EnvOf(env, role)).result.follow_up_options
        OfSecondary(i) ==
          IF i <= Len(sec) THEN Returned(sec[i], "secondary") ELSE << >>
        all == Returned(state.primary_agent, "primary")
               \o OfSecondary(1) \o OfSecondary(2) \o OfSecondary(3) \o OfSecondary(4)
        firsts == { i \in 1..Len(all) : \A j \in 1..(i - 1) : all[j] # all[i] }
        merged == state.follow_up_options
    IN /\ Len(sec) <= 4
       /\ Len(merged) = (IF Cardinality(firsts) < 6 THEN Cardinality(firsts) ELSE 6)
       /\ \A k \in 1..Len(merged) :
            \E i \in firsts :
              /\ Cardinality({ j \in firsts : j <= i }) = k
              /\ merged[k] = all[i]
       /\ Take(Unique(merged), 6) = merged

C16_ContextMergeOnly ==
  /\ state.context = context
  /\ DOMAIN context \subseteq DOMAIN state.updated_context
  /\ pc = "done" => DOMAIN context \subseteq DOMAIN response.context

\* a responder replaced the value of a key the caller supplied and added keys
C16_Witness ==
  /\ pc = "done"
  /\ caught = None
  /\ "priority" \in DOMAIN context
  /\ response.context["priority"] # context["priority"]
  /\ DOMAIN response.context # DOMAIN context
  /\ state.context = context

\* the ingest worker w ran last found a version other than the recorded one
ChangedIngest(w) ==
  /\ head[w] # << >>
  /\ ~Unchanged(before[w].indexed_docs, head[w][1])

\* C17: an ingest whose head_object answers the size and last-modified stamp
\* already in the record returns True at once: it makes no get, delete or add
\* on the collection and leaves the collection and the record as they were.
C17_UnchangedIngestTouchesNothing ==
  ( /\ head[1] # << >>
    /\ before[1].indexed_docs # << >>
    /\ before[1].indexed_docs[1].size = head[1][1].size
    /\ before[1].indexed_docs[1].last_modified = head[1][1].last_modified )
  => /\ ingest_pc[1] = "done"
     /\ ingest_result[1] = TRUE
     /\ ops[1] = {}
     /\ collection = before[1].collection
     /\ indexed_docs = before[1].indexed_docs

\* an ingest of the recorded version has returned, chunks being stored
C17_Witness ==
  /\ ingest_pc[1] = "done"
  /\ head[1] # << >>
  /\ Unchanged(before[1].indexed_docs, head[1][1])
  /\ before[1].collection # {}
  /\ collection = before[1].collection
  /\ ingest_result[1] = TRUE

\* C18: an ingest of a changed source in which the download, load, split or
\* embed, the lookup or delete of the old chunks or the insert of the new ones
\* raised returned False and left the chunks stored for the source and its
\* record as they were when it began.
C18_FailedIngestChangesNothing ==
  ( /\ ingest_pc[1] = "done"
    /\ ChangedIngest(1)
    /\ failed[1] # {}
    /\ failed[1] \subseteq {"download", "lookup", "delete", "add"} )
  => /\ ingest_result[1] = FALSE
     /\ collection = before[1].collection
     /\ indexed_docs = before[1].indexed_docs

\* C19: after an ingest of a changed source returned True, the chunks stored
\* for the source are exactly the chunks of the version it downloaded.
C19_SuccessStoresNewVersionOnly ==
  (ingest_pc[1] = "done" /\ ChangedIngest(1) /\ ingest_result[1] = TRUE)
  => collection = Chunks(texts[1][1])

\* C20: a query that ran while an ingest of a changed source was under way saw
\* the chunks stored when the ingest began, or the chunks of the version the
\* ingest downloaded, and nothing else.
C20_QuerySeesOldOrNew ==
  (observed # << >> /\ observed[1].during /\ ChangedIngest(1))
  => \/ observed[1].chunks = before[1].collection
     \/ texts[1] # << >> /\ observed[1].chunks = Chunks(texts[1][1])

C22_NoPassagesStillAnswers ==
  /\ \A outcome \in {"empty", "raises"} :
       /\ get_context_for_prompt(outcome) = << >>
       /\ policy_prompt(outcome) = "ungrounded"
  /\ ( /\ lastNode = "execute_primary_agent"
       /\ state.primary_agent = "policy"
       /\ invoked[Len(invoked)] = "policy"
       /\ env.rag = "none"
       /\ env.escape # "primary" )
     => /\ caught = None
        /\ state.error = None
        /\ \E k \in 1..Len(state.agent_steps) :
             state.agent_steps[k].action = "no_documents_found"
        /\ env.llm = "ok" =>
             /\ state.final_response = << "llm" >>
             /\ state.agent_steps[Len(state.agent_steps)].action = "response_complete"

\* the policy responder has answered as primary with no passages retrieved
C22_Witness ==
  /\ lastNode = "execute_primary_agent"
  /\ state.primary_agent = "policy"
  /\ env.rag = "none"
  /\ env.llm = "ok"
  /\ caught = None
  /\ state.final_response = << "llm" >>

\* the escalation responder has recorded the creation of a ticket in this turn
TicketCreated ==
  \E k \in 1..Len(state.agent_steps) :
    /\ state.agent_steps[k].agent_name = AgentName("escalation")
    /\ state.agent_steps[k].action = "ticket_created"

\* C23: in a turn whose incoming context has no escalation phase the
\* escalation responder creates no ticket, and once it has run the phase is
\* gathering_info and escalation_required is false; a ticket is created only
\* in a turn whose incoming phase is gathering_info.
C23_FirstPassOnlyGathers ==
  /\ TicketCreated => Get(context, "escalation_phase", None) = "gathering_info"
  /\ ( /\ "escalation_phase" \notin DOMAIN context
       /\ caught = None
       /\ Len(invoked) >= 1
       /\ invoked[Len(invoked)] = "escalation"
       /\ lastNode = "execute_primary_agent" )
     => /\ Get(state.updated_context, "escalation_phase", None) = "gathering_info"
        /\ ~state.escalation_required

\* C24: a ticket created in a turn has one of the four priorities and the SLA
\* hours the table gives for it, whatever context the caller passed.
C24_TicketPriorityAndSla ==
  TicketCreated =>
    /\ TicketOf(state).priority \in {"critical", "high", "medium", "low"}
    /\ TicketOf(state).sla_hours = sla_hours[TicketOf(state).priority]

\* C25: a record is removed only by clear_index, never by an ingest; and
\* when clear_index returns True it leaves no record and no chunk, so that no
\* version of the source passes the unchanged test.
C25_OnlyClearRemovesRecord ==
  /\ [][ (indexed_docs # << >> /\ indexed_docs' = << >>) => clear_pc = "records" ]_vars
  /\ [][ (clear_pc = "records" /\ clear_pc' = "done" /\ clear_result' = << TRUE >>)
         => /\ indexed_docs' = << >>
            /\ collection' = {}
            /\ \A v \in Versions : ~Unchanged(indexed_docs', v) ]_vars

\* C26: within one turn no responder's execute is invoked twice.
C26_NoResponderRunsTwice ==
  \A i, j \in 1..Len(invoked) : i # j => invoked[i] # invoked[j]

\* C27: escalation_required turns true only in execute_primary_agent, and only
\* when the primary's should_escalate holds; so a turn whose first primary is
\* not the escalation responder and does not ask for escalation ends without
\* the escalation responder having run, whatever its secondaries would ask.
C27_OnlyPrimaryEscalates ==
  /\ [][ (state'.escalation_required /\ ~state.escalation_required)
         => /\ lastNode' = "execute_primary_agent"
            /\ ShouldEscalate(state'.primary_agent, state') ]_vars
  /\ []( ( /\ pc = "done"
           /\ caught = None
           /\ Len(invoked) >= 1
           /\ invoked[1] # "escalation"
           /\ ~ShouldEscalate(invoked[1], state) )
         => ~InSeq("escalation", invoked) )

\* a turn has ended in which a secondary would have asked for escalation, the
\* primary did not, and the escalation responder did not run
C27_Witness ==
  /\ pc = "done"
  /\ caught = None
  /\ Len(invoked) >= 2
  /\ ~ShouldEscalate(invoked[1], state)
  /\ \E k \in 2..Len(invoked) : ShouldEscalate(invoked[k], state)
  /\ ~InSeq("escalation", invoked)

\* C28: while no ingest and no clear_index is under way, a source that has a
\* record has exactly record.chunks chunks in the collection.
C28_RecordMatchesChunks ==
  ( /\ ingest_pc[1] \in {"idle", "done"}
    /\ clear_pc \in {"idle", "done"}
    /\ indexed_docs # << >> )
  => Cardinality(collection) = indexed_docs[1].chunks

\* two threads of the executor each ran download_and_index_file over the same
\* version of the source, both past the unchanged test on the same record, and
\* at least one of them returned True
ConcurrentIngest ==
  /\ \A w \in Workers :
       /\ ingest_pc[w] = "done"
       /\ ChangedIngest(w)
       /\ texts[w] = head[w]
  /\ head[1] = head[2]
  /\ before[1].indexed_docs = before[2].indexed_docs
  /\ \E w \in Workers : ingest_result[w] = TRUE

\* the collection holds exactly the chunks of the version in the record
StoreMatchesRecord ==
  /\ indexed_docs # << >>
  /\ collection = Chunks([ size |-> indexed_docs[1].chunks,
                           last_modified |-> indexed_docs[1].last_modified ])

\* C29: when two indexing runs ingest the same changed source concurrently,
\* under every interleaving both return and the store ends up holding exactly
\* one complete chunk set of the source, that of the record written last.
C29_ConcurrentIngestsLeaveOneSet ==
  ConcurrentIngest
  => /\ \A w \in Workers : ingest_result[w] \in BOOLEAN
     /\ StoreMatchesRecord

\* context.get("escalation_phase", "initial")
Phase(ctx) == Get(ctx, "escalation_phase", "initial")

\* the order in which EscalationAgent.execute moves the phase
PhaseRank(p) ==
  CASE p = "initial" -> 0 [] p = "gathering_info" -> 1 [] p = "completed" -> 2

=============================================================================
